---------------------------- MODULE Spec2Model ----------------------------
(***************************************************************************)
(* PyDraw5: the canvas controller (canvas/canvas_manager.py), the layer    *)
(* objects (canvas/layer.py), the undo/redo log (state/undo_redo.py), the  *)
(* hook registry (hooks/hook_manager.py) and the drawing tools (tools/).   *)
(*                                                                         *)
(* Python values are records tagged by the field py: None, a bool, or a    *)
(* shape dict.  A shape dict carries an object identity oid, because the   *)
(* undo/redo closures capture the dict object, not a copy of it.  Numbers  *)
(* held in a shape are doubled (Dbl), so that the w / 2 of the ellipse     *)
(* tool stays an integer.                                                  *)
(*                                                                         *)
(* Layer objects live in heap, indexed by identity; layers is the store's  *)
(* list of identities.  A layer removed from the store stays in heap: the  *)
(* closures on the undo/redo stacks still reference it.                    *)
(***************************************************************************)
EXTENDS Integers, Sequences, FiniteSets, TLC

VARIABLES
    hooks,                \* HookManager._hooks: hook name -> list of (priority, callback)
    layers,               \* CanvasManager.layers: list of Layer objects (identities)
    heap,                 \* the Layer objects: identity -> name, shapes, visible, locked
    current_layer_index,  \* CanvasManager.current_layer_index (0-based)
    current_tool,         \* CanvasManager.current_tool
    placing,              \* CanvasManager.placing
    start_x,              \* CanvasManager.start_x
    start_y,              \* CanvasManager.start_y
    preview_shape,        \* CanvasManager.preview_shape
    undo_stack,           \* UndoRedoManager.undo_stack
    redo_stack,           \* UndoRedoManager.redo_stack
    dispatched,           \* the hook names the last handler passed to run_hooks, in order
    err,                  \* the exception the last handler raised, "none" if none
    printed,              \* the lines the last handler printed
    rendered,             \* the py5 drawing calls the last handler made, in order
    returned,             \* the value the last handler returned to its caller
    tool_registry,        \* main.tool_registry: the tools on_tool_register collected
    tool_buttons,         \* Sidebar.tool_buttons: the tools of the buttons, top down
    started,              \* py5.run_sketch() has called setup()
    lastOp,               \* history: the last handler run, with its arguments
    trail                 \* history: the latest handlers that changed a layer or a
                          \* stack, each with the shapes and stacks it started from

cvars == <<layers, heap, current_layer_index, current_tool, placing,
           start_x, start_y, preview_shape>>
uvars == <<undo_stack, redo_stack>>
pvars == <<hooks, cvars, uvars, dispatched, err, printed, rendered, returned>>
mvars == <<tool_registry, tool_buttons, started>>
vars == <<pvars, mvars, lastOp, trail>>

----------------------------------------------------------------------------
(* Bounds of the model.  Each specification below caps the objects its     *)
(* handlers may create; the handlers themselves have no cap.                *)

MaxLayers == 2     \* Spec: Layer objects ever created by add_layer
MaxShapes == 2     \* Spec: shape dicts alive at once (in layers or on the stacks)
UndoLayers == 2    \* SpecUndo: Layer objects ever created
UndoShapes == 2    \* SpecUndo: shape dicts alive at once
MaxBatch == 2      \* SpecUndo: placements in a run of n placements and n undos
StoreLayers == 2   \* SpecLayers: Layer objects ever created
StoreHooks == 2    \* SpecLayers: callbacks registered under layer.delete
HookCap == 3       \* SpecHooks: callbacks registered under shape.place
DrawHooks == 2     \* SpecDraw: callbacks registered under shape.draw
DrawLayers == 1    \* SpecDraw: Layer objects ever created
DrawShapes == 1    \* SpecDraw: shape dicts alive at once
DeleteLayers == 3  \* SpecDelete: Layer objects ever created
FlagLayers == 2    \* SpecFlags: Layer objects ever created
FlagShapes == 1    \* SpecFlags: shape dicts alive at once
ToolLayers == 1    \* SpecTools: Layer objects ever created
ToolShapes == 2    \* SpecTools: elements of a layer's shapes
PlaceLayers == 1   \* SpecPlace: Layer objects ever created
PlaceShapes == 1   \* SpecPlace: elements of a layer's shapes
PlaceHooks == 1    \* SpecPlace: callbacks registered under shape.place
RenderLayers == 2  \* SpecRender: Layer objects ever created
RenderShapes == 2  \* SpecRender: shape dicts alive at once
DetachLayers == 2  \* SpecDetached: Layer objects ever created
DetachShapes == 2  \* SpecDetached: shape dicts alive at once

----------------------------------------------------------------------------
(* Python values. *)

NoneV == [py |-> "None"]
BoolV(b) == [py |-> "bool", b |-> b]

\* bool(v): None and False are falsy, a non-empty dict is truthy.
Truthy(v) ==
    CASE v.py = "None" -> FALSE
      [] v.py = "bool" -> v.b
      [] OTHER -> TRUE

Dbl(n) == 2 * n
Abs(n) == IF n < 0 THEN -n ELSE n
Min(a, b) == IF a <= b THEN a ELSE b
Max(a, b) == IF a >= b THEN a ELSE b

\* seq[i] and seq.pop(i) of a Python list of length n: the 1-based position
\* that index i names, 0 when it raises IndexError.
PyIndex(n, i) ==
    IF 0 <= i /\ i < n THEN i + 1
    ELSE IF -n <= i /\ i < 0 THEN n + i + 1
    ELSE 0

RemoveAt(seq, p) == SubSeq(seq, 1, p - 1) \o SubSeq(seq, p + 1, Len(seq))
InsertAt(seq, p, e) == SubSeq(seq, 1, p - 1) \o <<e>> \o SubSeq(seq, p, Len(seq))

----------------------------------------------------------------------------
(* tools/: place and make_preview of the four tools. *)

Tools == {"Rectangle", "Ellipse", "Line", "Triangle"}
NoTool == "None"

\* Variant: w = x2 - x1 and h = y2 - y1, without abs
RectShapeSigned(oid, x1, y1, x2, y2) ==
    [py |-> "dict", oid |-> oid, type |-> "rect",
     x |-> Dbl(Min(x1, x2)), y |-> Dbl(Min(y1, y2)),
     w |-> Dbl(x2 - x1), h |-> Dbl(y2 - y1)]

RectShape(oid, x1, y1, x2, y2) ==
    [py |-> "dict", oid |-> oid, type |-> "rect",
     x |-> Dbl(Min(x1, x2)), y |-> Dbl(Min(y1, y2)),
     w |-> Dbl(Abs(x2 - x1)), h |-> Dbl(Abs(y2 - y1))]

\* x + w / 2 is float division: doubled, it is 2x + w.
EllipseShape(oid, x1, y1, x2, y2) ==
    [py |-> "dict", oid |-> oid, type |-> "ellipse",
     x |-> Dbl(Min(x1, x2)) + Abs(x2 - x1), y |-> Dbl(Min(y1, y2)) + Abs(y2 - y1),
     w |-> Dbl(Abs(x2 - x1)), h |-> Dbl(Abs(y2 - y1))]

LineShape(oid, x1, y1, x2, y2) ==
    [py |-> "dict", oid |-> oid, type |-> "line",
     x1 |-> Dbl(x1), y1 |-> Dbl(y1), x2 |-> Dbl(x2), y2 |-> Dbl(y2)]

\* tool.place(x1, y1, x2, y2); oid is the identity of the dict it creates.
\* TriangleTool.place returns None.
Place(tool, oid, x1, y1, x2, y2) ==
    CASE tool = "Rectangle" -> RectShape(oid, x1, y1, x2, y2)
      [] tool = "Ellipse" -> EllipseShape(oid, x1, y1, x2, y2)
      [] tool = "Line" -> LineShape(oid, x1, y1, x2, y2)
      [] OTHER -> NoneV

\* tool.make_preview(x1, y1, x2, y2).  A preview dict is transient: identity 0.
\* TriangleTool.make_preview returns self.preview, which only its own
\* update_preview sets and the canvas never calls: None.
MakePreview(tool, x1, y1, x2, y2) == Place(tool, 0, x1, y1, x2, y2)

\* A handler that prints nothing, draws nothing and returns None.
Quiet == printed' = <<>> /\ rendered' = <<>> /\ returned' = NoneV

----------------------------------------------------------------------------
(* hooks/hook_manager.py *)

HookNames == {"shape.place", "shape.draw", "layer.delete", "layer.deleted",
              "tool.register"}

\* def add_hook(self, name, callback, priority=10)
DefaultPriority == 10

\* The callbacks a plugin may register, by what they return:
\*   echo     the value it was given (plugins/example_plugin.py, tweak_rect)
\*   silent   None
\*   veto     False
\*   approve  True
\*   tagk     the list it was given with "tagk" appended ([] if it was given
\*            no list): the list tells which tag callbacks ran, in order
TagNames == <<"tag1", "tag2", "tag3", "tag4", "tag5">>
Tags == {TagNames[k] : k \in DOMAIN TagNames}
\*   on_tool_register   the value it was given (main.py); what it appends to
\*                      tool_registry is part of setup below
Callbacks == {"echo", "silent", "veto", "approve", "on_tool_register"} \cup Tags

ListV(items) == [py |-> "list", items |-> items]

\* result = callback(value, *args, **kwargs)
Call(cb, value) ==
    CASE cb \in {"echo", "on_tool_register"} -> value
      [] cb = "silent" -> NoneV
      [] cb = "veto" -> BoolV(FALSE)
      [] cb = "approve" -> BoolV(TRUE)
      [] cb \in Tags -> ListV((IF value.py = "list" THEN value.items ELSE <<>>) \o <<cb>>)

\* Variant: insert before the callbacks of equal priority.
RECURSIVE SortTiesReversed(_)
SortTiesReversed(seq) ==
    IF seq = <<>> THEN <<>>
    ELSE LET sorted == SortTiesReversed(SubSeq(seq, 1, Len(seq) - 1))
             e == seq[Len(seq)]
             k == Cardinality({i \in 1..Len(sorted) : sorted[i].priority < e.priority})
         IN InsertAt(sorted, k + 1, e)

\* list.sort(key=lambda x: x[0]): stable, ascending by priority.
RECURSIVE SortByPriority(_)
SortByPriority(seq) ==
    IF seq = <<>> THEN <<>>
    ELSE LET sorted == SortByPriority(SubSeq(seq, 1, Len(seq) - 1))
             e == seq[Len(seq)]
             \* e goes after every element whose priority is <= its own
             k == Cardinality({i \in 1..Len(sorted) : sorted[i].priority <= e.priority})
         IN InsertAt(sorted, k + 1, e)

\* Registered(reg, name): self._hooks.get(name, [])
Registered(reg, name) == reg[name]

\* Variant: a None result replaces the value like any other.
RECURSIVE RunFromNoCarry(_, _, _)
RunFromNoCarry(cbs, i, value) ==
    IF i > Len(cbs) THEN value
    ELSE RunFromNoCarry(cbs, i + 1, Call(cbs[i].callback, value))

\* The loop of run_hooks over the callbacks from position i on.
RECURSIVE RunFrom(_, _, _)
RunFrom(cbs, i, value) ==
    IF i > Len(cbs) THEN value
    ELSE LET result == Call(cbs[i].callback, value)
         IN RunFrom(cbs, i + 1, IF result # NoneV THEN result ELSE value)

run_hooks(name, value) == RunFrom(Registered(hooks, name), 1, value)

\* A call of run_hooks(name, value) on the registry, from any of its users.
call_run_hooks(name, value) ==
    /\ returned' = run_hooks(name, value)
    /\ dispatched' = <<name>>
    /\ err' = "none"
    /\ printed' = <<>>
    /\ rendered' = <<>>
    /\ UNCHANGED mvars
    /\ UNCHANGED <<hooks, cvars, uvars>>

\* The registry after add_hook(name, callback, priority).
AddedHook(reg, name, callback, priority) ==
    [reg EXCEPT ![name] = SortByPriority(Append(@, [priority |-> priority,
                                                    callback |-> callback]))]

add_hook(name, callback, priority) ==
    /\ hooks' = AddedHook(hooks, name, callback, priority)
    /\ dispatched' = <<>>
    /\ err' = "none"
    /\ Quiet
    /\ UNCHANGED mvars
    /\ UNCHANGED <<cvars, uvars>>

----------------------------------------------------------------------------
(* canvas/layer.py *)

\* Layer(name): no shapes, visible, not locked.
NewLayer(name) == [name |-> name, shapes |-> <<>>, visible |-> TRUE, locked |-> FALSE]

NoLayer == 0

----------------------------------------------------------------------------
(* state/undo_redo.py *)

\* An entry of a stack is the pair of closures finish_place records:
\*   undo = lambda: layer.shapes.pop()      redo = lambda: layer.shapes.append(shape)
\* that is, the layer and the shape they capture.  pos is a history field no
\* handler reads: the position at which the placement inserted the shape.
Entry(layer, shape, pos) == [layer |-> layer, shape |-> shape, pos |-> pos]

\* Variant: the closure pops from the store's current layer, not from the
\* layer it captured.
UndoClosureOnCurrent(e, h) ==
    [h EXCEPT ![layers[current_layer_index + 1]].shapes = SubSeq(@, 1, Len(@) - 1)]

\* Variant: an undo closure that removes nothing.
UndoClosureKeep(e, h) == h

\* Variant: layer.shapes.pop(0), the oldest shape instead of the newest.
UndoClosurePopFirst(e, h) ==
    [h EXCEPT ![e.layer].shapes = Tail(@)]

\* Variant: layer.shapes.clear().
UndoClosureClear(e, h) ==
    [h EXCEPT ![e.layer].shapes = <<>>]

\* The entry's undo closure, layer.shapes.pop(): the heap after it.
\* (Only called where the list is non-empty; see undo.)
UndoClosure(e, h) ==
    [h EXCEPT ![e.layer].shapes = SubSeq(@, 1, Len(@) - 1)]

\* Variant: layer.shapes.insert(0, shape).
RedoClosureInsertFirst(e, h) ==
    [h EXCEPT ![e.layer].shapes = <<e.shape>> \o @]

\* The entry's redo closure, layer.shapes.append(shape).
RedoClosure(e, h) ==
    [h EXCEPT ![e.layer].shapes = Append(@, e.shape)]

\* Variant: record without self.redo_stack.clear()
recordKeepRedo(e) ==
    /\ undo_stack' = Append(undo_stack, e)
    /\ redo_stack' = redo_stack

\* record(undo_func, redo_func): the two stacks after it.
record(e) ==
    /\ undo_stack' = Append(undo_stack, e)
    /\ redo_stack' = <<>>

undo ==
    /\ IF undo_stack # <<>>
       THEN LET e == undo_stack[Len(undo_stack)]
            IN /\ undo_stack' = SubSeq(undo_stack, 1, Len(undo_stack) - 1)
               /\ IF heap[e.layer].shapes = <<>>
                  THEN \* pop from empty list: the entry is lost
                       /\ err' = "IndexError"
                       /\ UNCHANGED <<heap, redo_stack>>
                  ELSE /\ heap' = UndoClosure(e, heap)
                       /\ redo_stack' = Append(redo_stack, e)
                       /\ err' = "none"
       ELSE /\ err' = "none"
            /\ UNCHANGED <<heap, undo_stack, redo_stack>>
    /\ dispatched' = <<>>
    /\ Quiet
    /\ UNCHANGED mvars
    /\ UNCHANGED <<hooks, layers, current_layer_index, current_tool, placing,
                   start_x, start_y, preview_shape>>

redo ==
    /\ IF redo_stack # <<>>
       THEN LET e == redo_stack[Len(redo_stack)]
            IN /\ redo_stack' = SubSeq(redo_stack, 1, Len(redo_stack) - 1)
               /\ heap' = RedoClosure(e, heap)
               /\ undo_stack' = Append(undo_stack, e)
       ELSE UNCHANGED <<heap, undo_stack, redo_stack>>
    /\ dispatched' = <<>>
    /\ err' = "none"
    /\ Quiet
    /\ UNCHANGED mvars
    /\ UNCHANGED <<hooks, layers, current_layer_index, current_tool, placing,
                   start_x, start_y, preview_shape>>

----------------------------------------------------------------------------
(* canvas/canvas_manager.py *)

\* Identities of the shape dicts still referenced: held by a layer or captured
\* by a closure on a stack.
DictOids(seq) == {seq[i].oid : i \in {j \in DOMAIN seq : seq[j].py = "dict"}}

LiveOids ==
    UNION {DictOids(heap[l].shapes) : l \in DOMAIN heap}
    \cup DictOids([i \in DOMAIN undo_stack |-> undo_stack[i].shape])
    \cup DictOids([i \in DOMAIN redo_stack |-> redo_stack[i].shape])

\* The identity of a newly created dict: one no live dict has.
FreshOid == CHOOSE n \in 1..(Cardinality(LiveOids) + 1) : n \notin LiveOids

add_tool(tool) ==
    /\ current_tool' = tool
    /\ dispatched' = <<>>
    /\ err' = "none"
    /\ Quiet
    /\ UNCHANGED mvars
    /\ UNCHANGED <<hooks, layers, heap, current_layer_index, placing,
                   start_x, start_y, preview_shape, uvars>>

start_place(x, y) ==
    /\ placing' = TRUE
    /\ start_x' = x
    /\ start_y' = y
    /\ preview_shape' = NoneV
    /\ dispatched' = <<>>
    /\ err' = "none"
    /\ Quiet
    /\ UNCHANGED mvars
    /\ UNCHANGED <<hooks, layers, heap, current_layer_index, current_tool, uvars>>

\* Variant: if self.current_tool, whether or not a placement is under way
update_previewAlways(x, y) ==
    /\ IF current_tool # NoTool
       THEN preview_shape' = MakePreview(current_tool, start_x, start_y, x, y)
       ELSE UNCHANGED preview_shape
    /\ dispatched' = <<>>
    /\ err' = "none"
    /\ Quiet
    /\ UNCHANGED mvars
    /\ UNCHANGED <<hooks, layers, heap, current_layer_index, current_tool,
                   placing, start_x, start_y, uvars>>

update_preview(x, y) ==
    /\ IF current_tool # NoTool /\ placing
       THEN preview_shape' = MakePreview(current_tool, start_x, start_y, x, y)
       ELSE UNCHANGED preview_shape
    /\ dispatched' = <<>>
    /\ err' = "none"
    /\ Quiet
    /\ UNCHANGED mvars
    /\ UNCHANGED <<hooks, layers, heap, current_layer_index, current_tool,
                   placing, start_x, start_y, uvars>>

\* self.layers[self.current_layer_index] if self.layers else None:
\* the layer's identity, NoLayer for None, -1 when the index raises IndexError.
get_current_layer ==
    IF layers # <<>>
    THEN LET p == PyIndex(Len(layers), current_layer_index)
         IN IF p = 0 THEN -1 ELSE layers[p]
    ELSE NoLayer

\* Variant: if layer, the lock is not looked at
CanPlaceIgnoringLock(layer) == layer # NoLayer

\* if layer and not layer.locked
CanPlace(layer) == layer # NoLayer /\ ~heap[layer].locked

\* Variant: placing and preview_shape are reset only where the shape is appended
finish_placeStaysPlacing(x, y) ==
    /\ dispatched' = IF current_tool # NoTool /\ placing THEN <<"shape.place">> ELSE <<>>
    /\ IF current_tool # NoTool /\ placing
       THEN LET shape == run_hooks("shape.place",
                             Place(current_tool, FreshOid, start_x, start_y, x, y))
                layer == get_current_layer
            IN IF layer = -1
               THEN \* IndexError in get_current_layer: lines 102-103 not reached
                    /\ err' = "IndexError"
                    /\ UNCHANGED <<heap, uvars, placing, preview_shape>>
               ELSE /\ IF CanPlace(layer)
                       THEN /\ heap' = [heap EXCEPT ![layer].shapes = Append(@, shape)]
                            /\ record(Entry(layer, shape, Len(heap[layer].shapes) + 1))
                       ELSE UNCHANGED <<heap, uvars>>
                    /\ IF CanPlace(layer)
                       THEN placing' = FALSE /\ preview_shape' = NoneV
                       ELSE UNCHANGED <<placing, preview_shape>>
                    /\ err' = "none"
       ELSE /\ placing' = FALSE
            /\ preview_shape' = NoneV
            /\ err' = "none"
            /\ UNCHANGED <<heap, uvars>>
    /\ Quiet
    /\ UNCHANGED mvars
    /\ UNCHANGED <<hooks, layers, current_layer_index, current_tool, start_x, start_y>>

\* Variant: the shape the tool returned is appended, not what run_hooks returned
finish_placeRaw(x, y) ==
    /\ dispatched' = IF current_tool # NoTool /\ placing THEN <<"shape.place">> ELSE <<>>
    /\ IF current_tool # NoTool /\ placing
       THEN LET shape == Place(current_tool, FreshOid, start_x, start_y, x, y)
                layer == get_current_layer
            IN IF layer = -1
               THEN \* IndexError in get_current_layer: lines 102-103 not reached
                    /\ err' = "IndexError"
                    /\ UNCHANGED <<heap, uvars, placing, preview_shape>>
               ELSE /\ IF CanPlace(layer)
                       THEN /\ heap' = [heap EXCEPT ![layer].shapes = Append(@, shape)]
                            /\ record(Entry(layer, shape, Len(heap[layer].shapes) + 1))
                       ELSE UNCHANGED <<heap, uvars>>
                    /\ placing' = FALSE
                    /\ preview_shape' = NoneV
                    /\ err' = "none"
       ELSE /\ placing' = FALSE
            /\ preview_shape' = NoneV
            /\ err' = "none"
            /\ UNCHANGED <<heap, uvars>>
    /\ Quiet
    /\ UNCHANGED mvars
    /\ UNCHANGED <<hooks, layers, current_layer_index, current_tool, start_x, start_y>>

finish_place(x, y) ==
    /\ dispatched' = IF current_tool # NoTool /\ placing THEN <<"shape.place">> ELSE <<>>
    /\ IF current_tool # NoTool /\ placing
       THEN LET shape == run_hooks("shape.place",
                             Place(current_tool, FreshOid, start_x, start_y, x, y))
                layer == get_current_layer
            IN IF layer = -1
               THEN \* IndexError in get_current_layer: lines 102-103 not reached
                    /\ err' = "IndexError"
                    /\ UNCHANGED <<heap, uvars, placing, preview_shape>>
               ELSE /\ IF CanPlace(layer)
                       THEN /\ heap' = [heap EXCEPT ![layer].shapes = Append(@, shape)]
                            /\ record(Entry(layer, shape, Len(heap[layer].shapes) + 1))
                       ELSE UNCHANGED <<heap, uvars>>
                    /\ placing' = FALSE
                    /\ preview_shape' = NoneV
                    /\ err' = "none"
       ELSE /\ placing' = FALSE
            /\ preview_shape' = NoneV
            /\ err' = "none"
            /\ UNCHANGED <<heap, uvars>>
    /\ Quiet
    /\ UNCHANGED mvars
    /\ UNCHANGED <<hooks, layers, current_layer_index, current_tool, start_x, start_y>>

\* The draw_shape calls of one draw(): the shapes of the visible layers, in
\* store order and in each layer's order, then the preview shape if truthy.
\* Variant: without the test of layer.visible
RECURSIVE VisibleShapesFromAll(_)
VisibleShapesFromAll(i) ==
    IF i > Len(layers) THEN <<>>
    ELSE LET l == heap[layers[i]]
         IN [k \in DOMAIN l.shapes |-> [shape |-> l.shapes[k], preview |-> FALSE]]
            \o VisibleShapesFromAll(i + 1)

RECURSIVE VisibleShapesFrom(_)
VisibleShapesFrom(i) ==
    IF i > Len(layers) THEN <<>>
    ELSE LET l == heap[layers[i]]
         IN (IF l.visible
             THEN [k \in DOMAIN l.shapes |-> [shape |-> l.shapes[k], preview |-> FALSE]]
             ELSE <<>>) \o VisibleShapesFrom(i + 1)

DrawQueue ==
    VisibleShapesFrom(1)
    \o (IF Truthy(preview_shape)
        THEN <<[shape |-> preview_shape, preview |-> TRUE]>> ELSE <<>>)

\* handled = self.hooks.run_hooks('shape.draw', False, shape=shape, preview=preview)
Handled(shape, preview) == Truthy(run_hooks("shape.draw", BoolV(FALSE)))

\* draw_shape(shape, preview): the py5 shape call it makes; none when a
\* callback handled the shape or the type has no branch.
draw_shape(shape, preview) ==
    IF Handled(shape, preview) THEN <<>>
    ELSE IF shape.type \in {"rect", "ellipse", "line", "triangle"}
         THEN <<[call |-> shape.type, shape |-> shape, preview |-> preview]>>
         ELSE <<>>

\* shape['type'] on a value that is no dict: TypeError.
DrawShapeRaises(shape, preview) == ~Handled(shape, preview) /\ shape.py # "dict"

RECURSIVE DrawCalls(_, _)
DrawCalls(q, n) ==
    IF n = 0 THEN <<>>
    ELSE DrawCalls(q, n - 1) \o draw_shape(q[n].shape, q[n].preview)

draw ==
    /\ LET q == DrawQueue
           bad == {i \in DOMAIN q : DrawShapeRaises(q[i].shape, q[i].preview)}
           \* the draw_shape calls that return
           n == IF bad = {} THEN Len(q)
                ELSE (CHOOSE i \in bad : \A j \in bad : i <= j) - 1
       IN /\ rendered' = DrawCalls(q, n)
          /\ err' = IF bad = {} THEN "none" ELSE "TypeError"
          /\ dispatched' = [i \in 1..(IF bad = {} THEN n ELSE n + 1) |-> "shape.draw"]
    /\ printed' = <<>>
    /\ returned' = NoneV
    /\ UNCHANGED mvars
    /\ UNCHANGED <<hooks, cvars, uvars>>

\* name = name or f"Layer {len(self.layers) + 1}": the name is kept as the number.
add_layer ==
    /\ LET id == Cardinality(DOMAIN heap) + 1
       IN /\ heap' = [l \in DOMAIN heap \cup {id} |->
                        IF l = id THEN NewLayer(Len(layers) + 1) ELSE heap[l]]
          /\ layers' = Append(layers, id)
          /\ current_layer_index' = Len(layers')  - 1
    /\ dispatched' = <<>>
    /\ err' = "none"
    /\ Quiet
    /\ UNCHANGED mvars
    /\ UNCHANGED <<hooks, current_tool, placing, start_x, start_y, preview_shape, uvars>>

\* Variant: only an empty store refuses.
LastLayerEmptyOnly(n) == n <= 0

\* Variant: no store refuses.
LastLayerNever(n) == FALSE

\* if len(self.layers) <= 1
LastLayer(n) == n <= 1

\* Variant: the index is left as it was.
IndexAfterDeleteStale(cur, index) == cur

\* Variant: the index always goes down by one.
IndexAfterDeleteAlways(cur, index) == Max(0, cur - 1)

\* max(0, self.current_layer_index - (1 if index <= self.current_layer_index else 0))
IndexAfterDelete(cur, index) == Max(0, cur - (IF index <= cur THEN 1 ELSE 0))

delete_layer(index) ==
    /\ IF LastLayer(Len(layers))
       THEN \* print("Can't delete the last layer."); return
            /\ printed' = <<"Can't delete the last layer.">>
            /\ dispatched' = <<>>
            /\ err' = "none"
            /\ UNCHANGED <<layers, current_layer_index>>
       ELSE LET p == PyIndex(Len(layers), index)
            IN IF p = 0
               THEN \* layer = self.layers[index] raises
                    /\ printed' = <<>>
                    /\ dispatched' = <<>>
                    /\ err' = "IndexError"
                    /\ UNCHANGED <<layers, current_layer_index>>
               ELSE LET should_delete == run_hooks("layer.delete", BoolV(TRUE))
                    IN /\ printed' = <<>>
                       /\ IF ~Truthy(should_delete)
                          THEN /\ dispatched' = <<"layer.delete">>
                               /\ UNCHANGED <<layers, current_layer_index>>
                          ELSE /\ layers' = RemoveAt(layers, p)
                               /\ current_layer_index' =
                                    IndexAfterDelete(current_layer_index, index)
                               /\ dispatched' = <<"layer.delete", "layer.deleted">>
                       /\ err' = "none"
    \* a bare return, or the end of the method, on every path
    /\ returned' = NoneV
    /\ rendered' = <<>>
    /\ UNCHANGED mvars
    /\ UNCHANGED <<hooks, heap, current_tool, placing, start_x, start_y,
                   preview_shape, uvars>>

\* Variant: no index is taken as in range.
InRangeNone(index, n) == FALSE

\* 0 <= index < len(self.layers)
InRange(index, n) == 0 <= index /\ index < n

toggle_visibility(index) ==
    /\ IF InRange(index, Len(layers))
       THEN heap' = [heap EXCEPT ![layers[index + 1]].visible = ~@]
       ELSE UNCHANGED heap
    /\ dispatched' = <<>>
    /\ err' = "none"
    /\ Quiet
    /\ UNCHANGED mvars
    /\ UNCHANGED <<hooks, layers, current_layer_index, current_tool, placing,
                   start_x, start_y, preview_shape, uvars>>

toggle_lock(index) ==
    /\ IF InRange(index, Len(layers))
       THEN heap' = [heap EXCEPT ![layers[index + 1]].locked = ~@]
       ELSE UNCHANGED heap
    /\ dispatched' = <<>>
    /\ err' = "none"
    /\ Quiet
    /\ UNCHANGED mvars
    /\ UNCHANGED <<hooks, layers, current_layer_index, current_tool, placing,
                   start_x, start_y, preview_shape, uvars>>

switch_layer(index) ==
    /\ IF InRange(index, Len(layers))
       THEN current_layer_index' = index
       ELSE UNCHANGED current_layer_index
    /\ dispatched' = <<>>
    /\ err' = "none"
    /\ Quiet
    /\ UNCHANGED mvars
    /\ UNCHANGED <<hooks, layers, heap, current_tool, placing,
                   start_x, start_y, preview_shape, uvars>>

\* Variant: the index is left as it was.
IndexAfterMoveStale(cur, from_index, to_index) == cur

\* if self.current_layer_index == from_index: self.current_layer_index = to_index
IndexAfterMove(cur, from_index, to_index) == IF cur = from_index THEN to_index ELSE cur

move_layer(from_index, to_index) ==
    /\ IF InRange(from_index, Len(layers)) /\ InRange(to_index, Len(layers))
       THEN /\ layers' = InsertAt(RemoveAt(layers, from_index + 1), to_index + 1,
                                  layers[from_index + 1])
            /\ current_layer_index' =
                    IndexAfterMove(current_layer_index, from_index, to_index)
       ELSE UNCHANGED <<layers, current_layer_index>>
    /\ dispatched' = <<>>
    /\ err' = "none"
    /\ Quiet
    /\ UNCHANGED mvars
    /\ UNCHANGED <<hooks, heap, current_tool, placing, start_x, start_y,
                   preview_shape, uvars>>

----------------------------------------------------------------------------
(* tools/*.py: a tool's place and make_preview called on their own.          *)

call_place(tool, x1, y1, x2, y2) ==
    /\ returned' = Place(tool, FreshOid, x1, y1, x2, y2)
    /\ dispatched' = <<>>
    /\ err' = "none"
    /\ printed' = <<>>
    /\ rendered' = <<>>
    /\ UNCHANGED mvars
    /\ UNCHANGED <<hooks, cvars, uvars>>

call_make_preview(tool, x1, y1, x2, y2) ==
    /\ returned' = MakePreview(tool, x1, y1, x2, y2)
    /\ dispatched' = <<>>
    /\ err' = "none"
    /\ printed' = <<>>
    /\ rendered' = <<>>
    /\ UNCHANGED mvars
    /\ UNCHANGED <<hooks, cvars, uvars>>

----------------------------------------------------------------------------
(* ui/sidebar.py and main.py *)

sidebar_width == 150
icon_size == 32
button_padding == 10
\* add_tool_button: 'x': 10 and the 'y' of the first button
button_x == 10
button_top == 10

\* The 'y' add_tool_button gave the k-th button (k from 1).
ButtonY(k) == button_top + (k - 1) * (icon_size + button_padding)

\* bx <= x <= bx + icon_size and by <= y <= by + icon_size
Hit(k, x, y) ==
    /\ button_x <= x /\ x <= button_x + icon_size
    /\ ButtonY(k) <= y /\ y <= ButtonY(k) + icon_size

\* The tool modules load_core_tools imports, in order.
CoreTools == <<"Rectangle", "Ellipse", "Line">>

\* What tool_registry holds after register(hooks) of the tool modules in mods:
\* each runs 'tool.register' once, and every on_tool_register registered under
\* it appends the tool.
RECURSIVE Registering(_, _, _)
Registering(reg, registry, mods) ==
    IF mods = <<>> THEN registry
    ELSE LET listeners == {k \in DOMAIN reg["tool.register"] :
                              reg["tool.register"][k].callback = "on_tool_register"}
         IN Registering(reg,
                        registry \o [k \in 1..Cardinality(listeners) |-> mods[1]],
                        Tail(mods))

\* The module-level statements of main.py after the constructors, and setup(),
\* which py5.run_sketch() calls once: on_tool_register is registered,
\* load_plugins registers tweak_rect of plugins/example_plugin.py under
\* 'shape.place' (it returns the shape it is given), load_core_tools registers
\* the core tools, every registered tool gets a button, the first becomes the
\* current tool.
setup ==
    /\ ~started
    /\ started' = TRUE
    /\ LET listening == AddedHook(hooks, "tool.register", "on_tool_register",
                                  DefaultPriority)
           plugged == AddedHook(listening, "shape.place", "echo", DefaultPriority)
           registry == Registering(plugged, tool_registry, CoreTools)
       IN /\ hooks' = plugged
          /\ tool_registry' = registry
          /\ tool_buttons' = tool_buttons \o registry
          /\ current_tool' = IF registry # <<>> THEN registry[1] ELSE current_tool
    /\ dispatched' = [k \in DOMAIN CoreTools |-> "tool.register"]
    /\ err' = "none"
    /\ Quiet
    /\ UNCHANGED <<layers, heap, current_layer_index, placing, start_x, start_y,
                   preview_shape, uvars>>

\* Sidebar.handle_mouse(x, y) returns False.
OnCanvas(x, y) == x >= sidebar_width

\* mouse_pressed: the sidebar takes the press, else a placement starts.  In the
\* sidebar the first button hit makes its tool the current one.
mouse_pressed(x, y) ==
    /\ started
    /\ IF OnCanvas(x, y)
       THEN start_place(x, y)
       ELSE /\ LET hit == {k \in DOMAIN tool_buttons : Hit(k, x, y)}
               IN current_tool' =
                      IF hit # {}
                      THEN tool_buttons[CHOOSE k \in hit : \A j \in hit : k <= j]
                      ELSE current_tool
            /\ dispatched' = <<>>
            /\ err' = "none"
            /\ Quiet
            /\ UNCHANGED mvars
            /\ UNCHANGED <<hooks, layers, heap, current_layer_index, placing,
                           start_x, start_y, preview_shape, uvars>>

mouse_dragged(x, y) == started /\ update_preview(x, y)

mouse_released(x, y) == started /\ finish_place(x, y)

\* key_pressed: 'z' undoes, 'y' redoes, any other key does nothing.
key_pressed(key) ==
    /\ started
    /\ CASE key = "z" -> undo
         [] key = "y" -> redo
         [] OTHER -> /\ dispatched' = <<>>
                     /\ err' = "none"
                     /\ Quiet
                     /\ UNCHANGED mvars
                     /\ UNCHANGED <<hooks, cvars, uvars>>

\* main.draw: the canvas, then the sidebar (which draws no shape).
main_draw == started /\ draw

----------------------------------------------------------------------------
(* The state after construction: HookManager(), UndoRedoManager(),          *)
(* CanvasManager(hooks, undo_manager), Sidebar(hooks, canvas) and the empty  *)
(* tool_registry.                                                           *)

Init ==
    /\ hooks = [n \in HookNames |-> <<>>]
    /\ layers = <<>>
    /\ heap = <<>>
    /\ current_layer_index = 0
    /\ current_tool = NoTool
    /\ placing = FALSE
    /\ start_x = 0
    /\ start_y = 0
    /\ preview_shape = NoneV
    /\ undo_stack = <<>>
    /\ redo_stack = <<>>
    /\ dispatched = <<>>
    /\ err = "none"
    /\ printed = <<>>
    /\ rendered = <<>>
    /\ returned = NoneV
    /\ tool_registry = <<>>
    /\ tool_buttons = <<>>
    /\ started = FALSE
    /\ lastOp = [op |-> "init", a |-> 0, b |-> 0, c |-> 0]
    /\ trail = <<>>

----------------------------------------------------------------------------
(* History.  No handler reads lastOp or trail.                              *)

Log(op, a, b, c) == lastOp' = [op |-> op, a |-> a, b |-> b, c |-> c]

\* The shapes of every layer object and the two stacks.
Snap == [shapes |-> [l \in DOMAIN heap |-> heap[l].shapes],
         undo |-> undo_stack, redo |-> redo_stack]

\* finish_place recorded an undo entry.
Committed == undo_stack' # undo_stack

\* The runs of handlers the properties of the undo log are about: n recorded
\* placements then n undos; undo then redo; undo, a recorded placement, redo;
\* a placement that was dropped.
Repeat(op, n) == [i \in 1..n |-> op]

Patterns ==
    {Repeat("record", n) \o Repeat("undo", n) : n \in 1..MaxBatch}
    \cup {<<"undo", "redo">>, <<"undo", "record", "redo">>, <<"dropped">>}

OpsOf(t) == [i \in DOMAIN t |-> t[i].op]

Suffix(t, k) == SubSeq(t, Len(t) - k + 1, Len(t))

\* What a run that may still grow into one of Patterns looks like.
Beginnings == UNION {{SubSeq(p, 1, k) : k \in 0..Len(p)} : p \in Patterns}

\* trail keeps the longest run of the latest handlers that begins one of
\* Patterns, each handler with the shapes and stacks it started from.
Track(op) ==
    LET ops == Append(OpsOf(trail), op)
        best == CHOOSE k \in 0..Len(ops) :
                    /\ Suffix(ops, k) \in Beginnings
                    /\ \A j \in (k + 1)..Len(ops) : Suffix(ops, j) \notin Beginnings
    IN trail' = Suffix(Append(trail, [op |-> op, pre |-> Snap]), best)

----------------------------------------------------------------------------
(* The inputs of the handlers. *)

\* Layer indices for a store of at most n layers: in range, and out of range
\* on both sides.
Indices(n) == -1..n

Live == Cardinality(LiveOids)
Created == Cardinality(DOMAIN heap)
\* finish_place would append a shape: a tool is set, a placement is under way
\* and the current layer exists and is unlocked.
WouldAppend ==
    /\ current_tool # NoTool
    /\ placing
    /\ get_current_layer \in DOMAIN heap
    /\ CanPlace(get_current_layer)

----------------------------------------------------------------------------
(* Spec: the handlers of the canvas, the layer store and the undo log, with  *)
(* no callback registered.                                                  *)

AddTool == add_tool("Rectangle") /\ UNCHANGED <<lastOp, trail>>
StartPlace == start_place(0, 0) /\ UNCHANGED <<lastOp, trail>>
UpdatePreview == update_preview(2, 1) /\ UNCHANGED <<lastOp, trail>>
FinishPlace ==
    /\ WouldAppend => Live < MaxShapes
    /\ finish_place(2, 1)
    /\ UNCHANGED <<lastOp, trail>>
AddLayer == Created < MaxLayers /\ add_layer /\ UNCHANGED <<lastOp, trail>>
DeleteLayer ==
    \E i \in Indices(MaxLayers) : delete_layer(i) /\ UNCHANGED <<lastOp, trail>>
ToggleVisibility ==
    \E i \in Indices(MaxLayers) : toggle_visibility(i) /\ UNCHANGED <<lastOp, trail>>
ToggleLock ==
    \E i \in Indices(MaxLayers) : toggle_lock(i) /\ UNCHANGED <<lastOp, trail>>
SwitchLayer ==
    \E i \in Indices(MaxLayers) : switch_layer(i) /\ UNCHANGED <<lastOp, trail>>
MoveLayer ==
    \E f \in Indices(MaxLayers), t \in Indices(MaxLayers) :
        move_layer(f, t) /\ UNCHANGED <<lastOp, trail>>
Undo == undo /\ UNCHANGED <<lastOp, trail>>
Redo == redo /\ UNCHANGED <<lastOp, trail>>

Next ==
    \/ AddTool
    \/ StartPlace
    \/ UpdatePreview
    \/ FinishPlace
    \/ AddLayer
    \/ DeleteLayer
    \/ ToggleVisibility
    \/ ToggleLock
    \/ SwitchLayer
    \/ MoveLayer
    \/ Undo
    \/ Redo

Spec == Init /\ [][Next]_vars

----------------------------------------------------------------------------
(* SpecUndo: placements on several layers, undo and redo.  The handlers     *)
(* that change a layer or a stack are recorded in trail.                    *)

UAddTool == add_tool("Rectangle") /\ UNCHANGED <<lastOp, trail>>
UStartPlace == start_place(0, 0) /\ UNCHANGED <<lastOp, trail>>
USwitchLayer ==
    \E i \in Indices(UndoLayers) : switch_layer(i) /\ UNCHANGED <<lastOp, trail>>
UFinishPlace ==
    /\ WouldAppend => Live < UndoShapes
    /\ finish_place(2, 1)
    /\ Track(IF Committed THEN "record"
             ELSE IF placing /\ current_tool # NoTool THEN "dropped"
             ELSE "finish_place")
    /\ UNCHANGED lastOp
UAddLayer == Created < UndoLayers /\ add_layer /\ Track("add_layer") /\ UNCHANGED lastOp
UToggleLock ==
    \E i \in Indices(UndoLayers) :
        toggle_lock(i) /\ Track("toggle_lock") /\ UNCHANGED lastOp
UUndo == undo /\ Track("undo") /\ UNCHANGED lastOp
URedo == redo /\ Track("redo") /\ UNCHANGED lastOp

NextUndo ==
    \/ UAddTool
    \/ UStartPlace
    \/ USwitchLayer
    \/ UFinishPlace
    \/ UAddLayer
    \/ UToggleLock
    \/ UUndo
    \/ URedo

SpecUndo == Init /\ [][NextUndo]_vars

----------------------------------------------------------------------------
(* SpecLayers: the layer store and the layer.delete hook.  lastOp records    *)
(* the handler; for move_layer also its arguments and the current index it  *)
(* started from.                                                            *)

LAddHook ==
    \E cb \in {"veto", "approve", "silent"} :
        /\ Len(hooks["layer.delete"]) < StoreHooks
        /\ add_hook("layer.delete", cb, DefaultPriority)
        /\ Log("add_hook", 0, 0, 0)
        /\ UNCHANGED trail
LAddLayer == Created < StoreLayers /\ add_layer /\ Log("add_layer", 0, 0, 0) /\ UNCHANGED trail
LDeleteLayer ==
    \E i \in Indices(StoreLayers) :
        delete_layer(i) /\ Log("delete_layer", 0, 0, 0) /\ UNCHANGED trail
LSwitchLayer ==
    \E i \in Indices(StoreLayers) :
        switch_layer(i) /\ Log("switch_layer", 0, 0, 0) /\ UNCHANGED trail
LMoveLayer ==
    \E f \in Indices(StoreLayers), t \in Indices(StoreLayers) :
        move_layer(f, t) /\ Log("move_layer", f, t, current_layer_index) /\ UNCHANGED trail

NextLayers ==
    \/ LAddHook
    \/ LAddLayer
    \/ LDeleteLayer
    \/ LSwitchLayer
    \/ LMoveLayer

SpecLayers == Init /\ [][NextLayers]_vars

----------------------------------------------------------------------------
(* SpecDelete: the layer store with no callback registered.  lastOp records  *)
(* delete_layer with its argument and the current index it started from.    *)

DAddLayer ==
    Created < DeleteLayers /\ add_layer /\ Log("add_layer", 0, 0, 0) /\ UNCHANGED trail
DDeleteLayer ==
    \E i \in Indices(DeleteLayers) :
        /\ delete_layer(i)
        /\ Log("delete_layer", i, Len(layers), current_layer_index)
        /\ UNCHANGED trail
DSwitchLayer ==
    \E i \in Indices(DeleteLayers) :
        switch_layer(i) /\ Log("switch_layer", 0, 0, 0) /\ UNCHANGED trail
DMoveLayer ==
    \E f \in Indices(DeleteLayers), t \in Indices(DeleteLayers) :
        move_layer(f, t) /\ Log("move_layer", 0, 0, 0) /\ UNCHANGED trail

NextDelete ==
    \/ DAddLayer
    \/ DDeleteLayer
    \/ DSwitchLayer
    \/ DMoveLayer

SpecDelete == Init /\ [][NextDelete]_vars

----------------------------------------------------------------------------
(* SpecFlags: the handlers that take a layer index and delete nothing, on    *)
(* layers that may hold a shape.  lastOp records them, with a = 1 when an    *)
(* index they were given is out of range.                                   *)

Outside(i) == IF InRange(i, Len(layers)) THEN 0 ELSE 1

FAddTool == add_tool("Line") /\ Log("other", 0, 0, 0) /\ UNCHANGED trail
FStartPlace == start_place(1, 0) /\ Log("other", 0, 0, 0) /\ UNCHANGED trail
FFinishPlace ==
    /\ WouldAppend => Live < FlagShapes
    /\ finish_place(0, 2)
    /\ Log("other", 0, 0, 0)
    /\ UNCHANGED trail
FAddLayer == Created < FlagLayers /\ add_layer /\ Log("other", 0, 0, 0) /\ UNCHANGED trail
FToggleVisibility ==
    \E i \in Indices(FlagLayers) :
        toggle_visibility(i) /\ Log("toggle_visibility", Outside(i), 0, 0) /\ UNCHANGED trail
FToggleLock ==
    \E i \in Indices(FlagLayers) :
        toggle_lock(i) /\ Log("toggle_lock", Outside(i), 0, 0) /\ UNCHANGED trail
FSwitchLayer ==
    \E i \in Indices(FlagLayers) :
        switch_layer(i) /\ Log("switch_layer", Outside(i), 0, 0) /\ UNCHANGED trail
FMoveLayer ==
    \E f \in Indices(FlagLayers), t \in Indices(FlagLayers) :
        move_layer(f, t) /\ Log("move_layer", Max(Outside(f), Outside(t)), 0, 0) /\ UNCHANGED trail

NextFlags ==
    \/ FAddTool
    \/ FStartPlace
    \/ FFinishPlace
    \/ FAddLayer
    \/ FToggleVisibility
    \/ FToggleLock
    \/ FSwitchLayer
    \/ FMoveLayer

SpecFlags == Init /\ [][NextFlags]_vars

----------------------------------------------------------------------------
(* SpecHooks: the registry under one hook name.  The k-th registration is    *)
(* of the callback tagk or of one that returns None, its argument or False,  *)
(* with a priority given or omitted.  lastOp records add_hook with the       *)
(* priority given (0 when omitted) and run_hooks with its value's position   *)
(* in HookInputs.                                                           *)

Priorities == {1, 5}
HookInputs == <<NoneV, ListV(<<>>), BoolV(TRUE)>>

HAddHook ==
    /\ Len(hooks["shape.place"]) < HookCap
    /\ \E cb \in {TagNames[Len(hooks["shape.place"]) + 1], "silent", "echo", "veto"} :
          \/ \E p \in Priorities :
                add_hook("shape.place", cb, p) /\ Log("add_hook", p, 0, 0)
          \/ add_hook("shape.place", cb, DefaultPriority) /\ Log("add_hook", 0, 0, 0)
    /\ UNCHANGED trail
HRunHooks ==
    \E k \in DOMAIN HookInputs :
        /\ call_run_hooks("shape.place", HookInputs[k])
        /\ Log("run_hooks", k, 0, 0)
        /\ UNCHANGED trail

NextHooks ==
    \/ HAddHook
    \/ HRunHooks

SpecHooks == Init /\ [][NextHooks]_vars

----------------------------------------------------------------------------
(* SpecDraw: draw() over layers that hold shapes, with callbacks registered  *)
(* under shape.draw.                                                        *)

GAddHook ==
    \E cb \in {"approve", "veto", "silent"} :
        /\ Len(hooks["shape.draw"]) < DrawHooks
        /\ add_hook("shape.draw", cb, DefaultPriority)
        /\ UNCHANGED <<lastOp, trail>>
GAddLayer == Created < DrawLayers /\ add_layer /\ UNCHANGED <<lastOp, trail>>
GAddTool == add_tool("Ellipse") /\ UNCHANGED <<lastOp, trail>>
GStartPlace == start_place(2, 2) /\ UNCHANGED <<lastOp, trail>>
GUpdatePreview == update_preview(0, 1) /\ UNCHANGED <<lastOp, trail>>
GFinishPlace ==
    /\ WouldAppend => Live < DrawShapes
    /\ finish_place(0, 1)
    /\ UNCHANGED <<lastOp, trail>>
GToggleVisibility ==
    \E i \in Indices(DrawLayers) : toggle_visibility(i) /\ UNCHANGED <<lastOp, trail>>
GDraw == draw /\ UNCHANGED <<lastOp, trail>>

NextDraw ==
    \/ GAddHook
    \/ GAddLayer
    \/ GAddTool
    \/ GStartPlace
    \/ GUpdatePreview
    \/ GFinishPlace
    \/ GToggleVisibility
    \/ GDraw

SpecDraw == Init /\ [][NextDraw]_vars

----------------------------------------------------------------------------
(* SpecMain: the sketch as main.py wires it: setup(), then mouse and key     *)
(* events at a few points of the window.                                    *)

\* Mouse positions: on each of the three buttons (one on a button's far
\* corner), in the sidebar off every button, on the first canvas column and
\* further into the canvas.
MousePoints == {<<10, 10>>, <<42, 84>>, <<20, 100>>, <<149, 500>>,
                <<150, 10>>, <<230, 60>>}
Keys == {"z", "y", "x"}

MSetup == setup /\ UNCHANGED <<lastOp, trail>>
MMousePressed ==
    \E pt \in MousePoints : mouse_pressed(pt[1], pt[2]) /\ UNCHANGED <<lastOp, trail>>
MMouseDragged ==
    \E pt \in MousePoints : mouse_dragged(pt[1], pt[2]) /\ UNCHANGED <<lastOp, trail>>
MMouseReleased ==
    \E pt \in MousePoints : mouse_released(pt[1], pt[2]) /\ UNCHANGED <<lastOp, trail>>
MKeyPressed == \E key \in Keys : key_pressed(key) /\ UNCHANGED <<lastOp, trail>>
MDraw == main_draw /\ UNCHANGED <<lastOp, trail>>

NextMain ==
    \/ MSetup
    \/ MMousePressed
    \/ MMouseDragged
    \/ MMouseReleased
    \/ MKeyPressed
    \/ MDraw

SpecMain == Init /\ [][NextMain]_vars

----------------------------------------------------------------------------
(* SpecTools: placements with each of the four tools, no callback            *)
(* registered.                                                              *)

StartPoints == {<<0, 0>>, <<2, 1>>}

TAddTool == \E tool \in Tools : add_tool(tool) /\ UNCHANGED <<lastOp, trail>>
TAddLayer == Created < ToolLayers /\ add_layer /\ UNCHANGED <<lastOp, trail>>
TStartPlace ==
    \E pt \in StartPoints : start_place(pt[1], pt[2]) /\ UNCHANGED <<lastOp, trail>>
TUpdatePreview == update_preview(1, 2) /\ UNCHANGED <<lastOp, trail>>
TFinishPlace ==
    /\ WouldAppend => Len(heap[get_current_layer].shapes) < ToolShapes
    /\ finish_place(1, 2)
    /\ UNCHANGED <<lastOp, trail>>

NextTools ==
    \/ TAddTool
    \/ TAddLayer
    \/ TStartPlace
    \/ TUpdatePreview
    \/ TFinishPlace

SpecTools == Init /\ [][NextTools]_vars

----------------------------------------------------------------------------
(* SpecPlace: the placement cycle start_place, update_preview, finish_place  *)
(* on a layer that may be absent or locked, with shape.place callbacks, and  *)
(* undo and redo.                                                           *)

\* How a finish_place call ends: 0 called in Idle or without a tool,
\* 1 the shape is appended, 2 dropped on a locked layer, 3 dropped with no layer.
PlaceCase ==
    IF ~(current_tool # NoTool /\ placing) THEN 0
    ELSE IF WouldAppend THEN 1
    ELSE IF get_current_layer = NoLayer THEN 3 ELSE 2

PAddHook ==
    /\ Len(hooks["shape.place"]) < PlaceHooks
    /\ \E cb \in {"silent", "tag1"} : add_hook("shape.place", cb, DefaultPriority)
    /\ UNCHANGED <<lastOp, trail>>
PAddTool == add_tool("Rectangle") /\ Log("add_tool", 0, 0, 0) /\ UNCHANGED trail
PAddLayer ==
    /\ Created < PlaceLayers
    /\ add_layer
    /\ Log("add_layer", 0, 0, 0)
    /\ UNCHANGED trail
PToggleLock == toggle_lock(0) /\ Log("toggle_lock", 0, 0, 0) /\ UNCHANGED trail
PStartPlace == start_place(2, 1) /\ Log("start_place", 0, 0, 0) /\ UNCHANGED trail
PUpdatePreview ==
    /\ update_preview(0, 2)
    /\ Log("update_preview", IF placing THEN 1 ELSE 0, 0, 0)
    /\ UNCHANGED trail
PFinishPlace ==
    /\ WouldAppend => Len(heap[get_current_layer].shapes) < PlaceShapes
    /\ finish_place(0, 2)
    /\ Log("finish_place", PlaceCase, 0, 0)
    /\ UNCHANGED trail
PUndo == undo /\ Log("undo", Len(undo_stack), 0, 0) /\ UNCHANGED trail
PRedo == redo /\ Log("redo", Len(redo_stack), 0, 0) /\ UNCHANGED trail

NextPlace ==
    \/ PAddHook
    \/ PAddTool
    \/ PAddLayer
    \/ PToggleLock
    \/ PStartPlace
    \/ PUpdatePreview
    \/ PFinishPlace
    \/ PUndo
    \/ PRedo

SpecPlace == Init /\ [][NextPlace]_vars

----------------------------------------------------------------------------
(* SpecRender: draw() over several layers, visible or not, in a store whose  *)
(* order move_layer changes, with no callback registered.                   *)

RAddTool == add_tool("Rectangle") /\ Log("add_tool", 0, 0, 0) /\ UNCHANGED trail
RAddLayer ==
    /\ Created < RenderLayers
    /\ add_layer
    /\ Log("add_layer", 0, 0, 0)
    /\ UNCHANGED trail
RSwitchLayer ==
    \E i \in 0..(RenderLayers - 1) :
        switch_layer(i) /\ Log("switch_layer", 0, 0, 0) /\ UNCHANGED trail
RMoveLayer == move_layer(0, 1) /\ Log("move_layer", 0, 0, 0) /\ UNCHANGED trail
RToggleVisibility ==
    \E i \in 0..(RenderLayers - 1) :
        toggle_visibility(i) /\ Log("toggle_visibility", 0, 0, 0) /\ UNCHANGED trail
RStartPlace == start_place(0, 0) /\ Log("start_place", 0, 0, 0) /\ UNCHANGED trail
RUpdatePreview == update_preview(1, 2) /\ Log("update_preview", 0, 0, 0) /\ UNCHANGED trail
RFinishPlace ==
    /\ WouldAppend => Live < RenderShapes
    /\ finish_place(2, 1)
    /\ Log("finish_place", 0, 0, 0)
    /\ UNCHANGED trail
RDraw == draw /\ Log("draw", 0, 0, 0) /\ UNCHANGED trail

NextRender ==
    \/ RAddTool
    \/ RAddLayer
    \/ RSwitchLayer
    \/ RMoveLayer
    \/ RToggleVisibility
    \/ RStartPlace
    \/ RUpdatePreview
    \/ RFinishPlace
    \/ RDraw

SpecRender == Init /\ [][NextRender]_vars

----------------------------------------------------------------------------
(* SpecGeometry: place and make_preview of each tool on drags between a few  *)
(* points, in every direction.                                              *)

GeoPoints == {<<0, 0>>, <<20, 20>>, <<10, 10>>, <<50, 40>>, <<10, 40>>}

GeoPlace ==
    \E tool \in Tools, p \in GeoPoints, q \in GeoPoints :
        /\ call_place(tool, p[1], p[2], q[1], q[2])
        /\ Log("place", tool, p, q)
        /\ UNCHANGED trail
GeoMakePreview ==
    \E tool \in Tools, p \in GeoPoints, q \in GeoPoints :
        /\ call_make_preview(tool, p[1], p[2], q[1], q[2])
        /\ Log("make_preview", tool, p, q)
        /\ UNCHANGED trail

NextGeometry ==
    \/ GeoPlace
    \/ GeoMakePreview

SpecGeometry == Init /\ [][NextGeometry]_vars

----------------------------------------------------------------------------
(* SpecDetached: placements on layers that delete_layer then removes from    *)
(* the store, and undo and redo of the entries that captured them.          *)

InStore(l) == \E i \in DOMAIN layers : layers[i] = l

\* 1 when the entry on top of the stack captures a layer no longer in the
\* store, 0 otherwise.
TopDetached(stack) ==
    IF stack # <<>> /\ ~InStore(stack[Len(stack)].layer) THEN 1 ELSE 0

XAddTool == add_tool("Line") /\ Log("add_tool", 0, 0, 0) /\ UNCHANGED trail
XAddLayer ==
    /\ Created < DetachLayers
    /\ add_layer
    /\ Log("add_layer", 0, 0, 0)
    /\ UNCHANGED trail
XSwitchLayer ==
    \E i \in 0..(DetachLayers - 1) :
        switch_layer(i) /\ Log("switch_layer", 0, 0, 0) /\ UNCHANGED trail
XStartPlace == start_place(1, 1) /\ Log("start_place", 0, 0, 0) /\ UNCHANGED trail
XFinishPlace ==
    /\ WouldAppend => Live < DetachShapes
    /\ finish_place(0, 2)
    /\ Log("finish_place", 0, 0, 0)
    /\ UNCHANGED trail
XDeleteLayer ==
    \E i \in 0..(DetachLayers - 1) :
        /\ delete_layer(i)
        /\ Log("delete_layer", IF Len(layers') < Len(layers) THEN 1 ELSE 0, 0, 0)
        /\ UNCHANGED trail
XUndo == undo /\ Log("undo", TopDetached(undo_stack), 0, 0) /\ UNCHANGED trail
XRedo == redo /\ Log("redo", TopDetached(redo_stack), 0, 0) /\ UNCHANGED trail

NextDetached ==
    \/ XAddTool
    \/ XAddLayer
    \/ XSwitchLayer
    \/ XStartPlace
    \/ XFinishPlace
    \/ XDeleteLayer
    \/ XUndo
    \/ XRedo

SpecDetached == Init /\ [][NextDetached]_vars

----------------------------------------------------------------------------
(* The undo log: exact reversal.                                            *)

ShapesOf(h) == [l \in DOMAIN h |-> h[l].shapes]

LastOps(k) == IF Len(trail) >= k THEN OpsOf(Suffix(trail, k)) ELSE <<>>

\* C1: whenever undo() runs an entry's undo closure, the shape it removes is
\* the very dict the entry's placement appended, taken from the layer and from
\* the position the placement put it at; no other layer changes.
C1_ExactReversal ==
    [][(undo /\ undo_stack # <<>>) =>
          LET e == undo_stack[Len(undo_stack)]
              before == heap[e.layer].shapes
          IN /\ e.pos = Len(before)
             /\ before[e.pos] = e.shape
             /\ heap'[e.layer].shapes = RemoveAt(before, e.pos)
             /\ \A l \in DOMAIN heap \ {e.layer} : heap'[l] = heap[l]]_vars

\* An undo has just run, of a shape placed second in its layer, while a layer
\* is locked and the undone entry's layer is not the current one.
C1_Witness ==
    /\ LastOps(1) = <<"undo">>
    /\ redo_stack # <<>>
    /\ LET e == redo_stack[Len(redo_stack)]
       IN /\ e.pos = 2
          /\ Len(heap[e.layer].shapes) = 1
          /\ get_current_layer # e.layer
    /\ \E l \in DOMAIN heap : heap[l].locked

\* C2: n recorded placements (on any layers) followed by n undos leave every
\* layer's shapes as they were before the first of the placements.
C2_PlaceThenUndoRestores ==
    \A n \in 1..MaxBatch :
        LastOps(2 * n) = Repeat("record", n) \o Repeat("undo", n)
            => ShapesOf(heap) = trail[Len(trail) - 2 * n + 1].pre.shapes

\* Two placements on two different layers, then two undos.
C2_Witness ==
    /\ LastOps(4) = <<"record", "record", "undo", "undo">>
    /\ LET t == Suffix(trail, 4)
       IN /\ t[3].pre.undo[Len(t[3].pre.undo)].layer
                # t[4].pre.undo[Len(t[4].pre.undo)].layer

\* C3: with a non-empty undo stack, undo() then redo() gives back the shapes of
\* every layer and both stacks as they were before the undo.
C3_UndoRedoIdentity ==
    (LastOps(2) = <<"undo", "redo">> /\ trail[Len(trail) - 1].pre.undo # <<>>)
        => Snap = trail[Len(trail) - 1].pre

\* undo then redo of a placement, started with an entry already on the redo
\* stack.
C3_Witness ==
    /\ LastOps(2) = <<"undo", "redo">>
    /\ LET pre == trail[Len(trail) - 1].pre
       IN /\ pre.undo # <<>>
          /\ pre.redo # <<>>

\* C4: a recorded placement pushes its entry on the undo stack and empties the
\* redo stack; a redo() that follows an undo() and a recorded placement changes
\* no layer and neither stack.
C4_RecordClearsRedo ==
    [][/\ (finish_place(2, 1) /\ Committed) =>
              /\ Len(undo_stack') = Len(undo_stack) + 1
              /\ SubSeq(undo_stack', 1, Len(undo_stack)) = undo_stack
              /\ redo_stack' = <<>>
       /\ (LastOps(3)' = <<"undo", "record", "redo">>) => Snap' = Snap]_vars

\* undo of a placement, a new placement that found the undone entry on the
\* redo stack, then redo.
C4_Witness ==
    /\ LastOps(3) = <<"undo", "record", "redo">>
    /\ LET t == Suffix(trail, 3)
       IN /\ t[1].pre.undo # <<>>
          /\ t[2].pre.redo # <<>>
          /\ t[3].pre.redo = <<>>
          /\ Len(undo_stack) = 1

\* C5 (as claimed): no handler adds a shape to a layer that is locked when the
\* handler runs.
C5_LockedLayerGainsNoShape ==
    [][\A l \in DOMAIN heap :
          heap[l].locked => Len(heap'[l].shapes) <= Len(heap[l].shapes)]_vars

\* C6: finish_place in the Placing state, with a tool, on a locked current
\* layer changes no layer and neither stack, and raises nothing.
C6_LockedPlacementDropped ==
    [][(/\ finish_place(2, 1)
        /\ placing
        /\ current_tool # NoTool
        /\ get_current_layer \in DOMAIN heap
        /\ heap[get_current_layer].locked)
          => /\ heap' = heap
             /\ undo_stack' = undo_stack
             /\ redo_stack' = redo_stack
             /\ err' = "none"]_vars

\* A placement has just been dropped on a locked layer that holds a shape,
\* with entries on both stacks.
C6_Witness ==
    /\ LastOps(1) = <<"dropped">>
    /\ get_current_layer \in DOMAIN heap
    /\ heap[get_current_layer].locked
    /\ heap[get_current_layer].shapes # <<>>
    /\ undo_stack # <<>>
    /\ redo_stack # <<>>
    /\ ~placing

----------------------------------------------------------------------------
(* The layer store.                                                         *)

\* C7 (as claimed): with two layers or more, a veto by any callback of
\* layer.delete aborts delete_layer(index): the layers and the current index
\* stay, and layer.deleted is not dispatched.
C7_AnyVetoAborts ==
    [][\A i \in 0..(Len(layers) - 1) :
          (/\ delete_layer(i)
           /\ Len(layers) >= 2
           /\ \E k \in DOMAIN hooks["layer.delete"] :
                  hooks["layer.delete"][k].callback = "veto")
             => /\ layers' = layers
                /\ current_layer_index' = current_layer_index
                /\ dispatched' = <<"layer.delete">>]_vars

\* C8 (as claimed): move_layer with both indices in range leaves
\* get_current_layer() returning the same layer object.
C8_MoveKeepsCurrentLayer ==
    [][\A f \in 0..(Len(layers) - 1), t \in 0..(Len(layers) - 1) :
          move_layer(f, t) => get_current_layer' = get_current_layer]_vars

C10_CurrentIndexValid ==
    layers # <<>> => (0 <= current_layer_index /\ current_layer_index < Len(layers))

\* A layer has just been deleted from a store that was reordered, leaving the
\* current index on the last layer, with shapes placed and undone.
C10_Witness ==
    /\ dispatched = <<"layer.delete", "layer.deleted">>
    /\ layers = <<2>>
    /\ current_layer_index = 0
    /\ undo_stack # <<>>
    /\ redo_stack # <<>>

----------------------------------------------------------------------------
(* Deleting layers.                                                         *)

\* C11: once the store holds a layer, no handler leaves it with none.
C11_StoreNeverEmpties ==
    [][layers # <<>> => layers' # <<>>]_vars

\* A layer has been deleted, callbacks are registered under layer.delete, and
\* delete_layer has just refused to delete the one layer left.
C11_Witness ==
    /\ lastOp.op = "delete_layer"
    /\ Created = 2
    /\ Len(layers) = 1
    /\ printed # <<>>
    /\ hooks["layer.delete"] # <<>>

C13_DeleteAdjustsIndex ==
    [][\A i \in 0..(Len(layers) - 1) :
          (delete_layer(i) /\ Len(layers) >= 2)
             => /\ Len(layers') = Len(layers) - 1
                /\ \A k \in 1..i : layers'[k] = layers[k]
                /\ \A k \in (i + 1)..Len(layers') : layers'[k] = layers[k + 1]
                /\ current_layer_index' =
                      IF i <= current_layer_index
                      THEN (IF current_layer_index >= 1
                            THEN current_layer_index - 1 ELSE 0)
                      ELSE current_layer_index]_vars

\* The layer at index 2 of three has just been deleted while index 1 was
\* current: the current index stayed.
C13_Witness ==
    /\ lastOp = [op |-> "delete_layer", a |-> 2, b |-> 3, c |-> 1]
    /\ Len(layers) = 2
    /\ current_layer_index = 1
    /\ dispatched = <<"layer.delete", "layer.deleted">>

\* C14 (as claimed): delete_layer with an index that is negative or >= the
\* number of layers, on a store of two layers or more, removes no layer,
\* leaves the current index and raises no error.
C14_OutOfRangeDeleteIsNoOp ==
    [][\A i \in Indices(DeleteLayers) :
          (delete_layer(i) /\ Len(layers) >= 2 /\ (i < 0 \/ i >= Len(layers)))
             => /\ layers' = layers
                /\ current_layer_index' = current_layer_index
                /\ err' = "none"]_vars

----------------------------------------------------------------------------
(* Handlers that take a layer index.                                        *)

\* The store: the order of the layers, every layer object and the current
\* index.
Store == <<layers, heap, current_layer_index>>

\* heap' differs from heap only in the named flag of layer l, which is flipped.
OnlyFlipped(l, flag) ==
    /\ DOMAIN heap' = DOMAIN heap
    /\ \A k \in DOMAIN heap \ {l} : heap'[k] = heap[k]
    /\ heap'[l].name = heap[l].name
    /\ heap'[l].shapes = heap[l].shapes
    /\ heap'[l].visible = (IF flag = "visible" THEN ~heap[l].visible ELSE heap[l].visible)
    /\ heap'[l].locked = (IF flag = "locked" THEN ~heap[l].locked ELSE heap[l].locked)

\* C15: toggle_visibility, toggle_lock, switch_layer and move_layer with an
\* index outside 0..len(layers)-1 change nothing of the store; with an index in
\* range, toggle_visibility and toggle_lock flip the named flag of the indexed
\* layer and nothing else.
C15_IndexFrame ==
    [][\A i \in Indices(FlagLayers) :
          /\ (i < 0 \/ i >= Len(layers)) =>
                /\ toggle_visibility(i) => Store' = Store
                /\ toggle_lock(i) => Store' = Store
                /\ switch_layer(i) => Store' = Store
                /\ \A j \in Indices(FlagLayers) :
                       /\ move_layer(i, j) => Store' = Store
                       /\ move_layer(j, i) => Store' = Store
          /\ (0 <= i /\ i < Len(layers)) =>
                /\ toggle_visibility(i) =>
                      /\ OnlyFlipped(layers[i + 1], "visible")
                      /\ layers' = layers
                      /\ current_layer_index' = current_layer_index
                /\ toggle_lock(i) =>
                      /\ OnlyFlipped(layers[i + 1], "locked")
                      /\ layers' = layers
                      /\ current_layer_index' = current_layer_index]_vars

\* move_layer has just been called with an index out of range on two layers,
\* one of them hidden, locked and holding a shape.
C15_Witness ==
    /\ lastOp = [op |-> "move_layer", a |-> 1, b |-> 0, c |-> 0]
    /\ Len(layers) = 2
    /\ \E l \in DOMAIN heap :
           ~heap[l].visible /\ heap[l].locked /\ heap[l].shapes # <<>>

----------------------------------------------------------------------------
(* The hook registry.                                                       *)

\* The registration number of a tag callback.
TagIndex(cb) == CHOOSE k \in DOMAIN TagNames : TagNames[k] = cb

\* The priority the registry holds for a callback.
PriorityOf(cb) ==
    LET reg == hooks["shape.place"]
    IN reg[CHOOSE i \in DOMAIN reg : reg[i].callback = cb].priority

OnlyTags == \A i \in DOMAIN hooks["shape.place"] : hooks["shape.place"][i].callback \in Tags

\* C16: run_hooks calls the callbacks by ascending priority and, among equal
\* priorities, in the order of their registration, each of them once; a
\* callback registered without a priority has priority 10.
C16_PriorityOrder ==
    /\ (lastOp.op = "run_hooks" /\ OnlyTags) =>
           LET ran == returned.items
               all == hooks["shape.place"]
           IN IF all = <<>> THEN returned = HookInputs[lastOp.a]
              ELSE /\ Len(ran) = Len(all)
                   /\ \A i \in DOMAIN all : \E j \in DOMAIN ran : ran[j] = all[i].callback
                   /\ \A i \in DOMAIN ran : \A j \in DOMAIN ran :
                         i < j =>
                           \/ PriorityOf(ran[i]) < PriorityOf(ran[j])
                           \/ /\ PriorityOf(ran[i]) = PriorityOf(ran[j])
                              /\ TagIndex(ran[i]) < TagIndex(ran[j])
    /\ (lastOp.op = "add_hook" /\ lastOp.a = 0) =>
           \E i \in DOMAIN hooks["shape.place"] :
              /\ hooks["shape.place"][i].priority = 10
              /\ \A j \in DOMAIN hooks["shape.place"] :
                    (j > i) => hooks["shape.place"][j].priority > 10

\* Callbacks registered with priorities 5, 1, 5 have just run: the second
\* registered, then the first, then the third.
C16_Witness ==
    /\ lastOp.op = "run_hooks"
    /\ hooks["shape.place"] = << [priority |-> 1, callback |-> "tag2"],
                                 [priority |-> 5, callback |-> "tag1"],
                                 [priority |-> 5, callback |-> "tag3"] >>
    /\ returned = ListV(<<"tag2", "tag1", "tag3">>)

\* The value after the callbacks cbs, given v: the value after all but the
\* last of them, replaced by what the last returns for it unless that is None.
RECURSIVE Fold(_, _)
Fold(cbs, v) ==
    IF cbs = <<>> THEN v
    ELSE LET sofar == Fold(SubSeq(cbs, 1, Len(cbs) - 1), v)
             result == Call(cbs[Len(cbs)].callback, sofar)
         IN IF result.py = "None" THEN sofar ELSE result

\* C17: run_hooks(name, v) returns the left fold of the callbacks in dispatch
\* order over v, a None result carrying the value forward; with no callback
\* it returns v.
C17_RunHooksFolds ==
    lastOp.op = "run_hooks" =>
        /\ returned = Fold(hooks["shape.place"], HookInputs[lastOp.a])
        /\ hooks["shape.place"] = <<>> => returned = HookInputs[lastOp.a]

\* run_hooks has just returned False for the input True: a veto, then a
\* callback returning None, then one returning its argument.
C17_Witness ==
    /\ lastOp = [op |-> "run_hooks", a |-> 3, b |-> 0, c |-> 0]
    /\ Len(hooks["shape.place"]) = 3
    /\ hooks["shape.place"][1].callback = "veto"
    /\ hooks["shape.place"][2].callback = "silent"
    /\ hooks["shape.place"][3].callback = "echo"
    /\ returned = BoolV(FALSE)

----------------------------------------------------------------------------
(* Drawing.                                                                 *)

\* C18 (as claimed): in a draw() pass, when a callback of shape.draw returns
\* True no shape is rendered by default, whatever the other callbacks return;
\* when none does, every shape of the pass is rendered by default.
C18_AnyHandledSkipsDefault ==
    [][draw =>
          IF \E k \in DOMAIN hooks["shape.draw"] :
                 hooks["shape.draw"][k].callback = "approve"
          THEN rendered' = <<>>
          ELSE Len(rendered') = Len(DrawQueue)]_vars


\* C19: in the sketch as main.py wires it, after setup(), a press on the canvas
\* followed by a release dispatches shape.place once, appends exactly one shape
\* to the current layer and records one undo entry.
C19_PressReleasePlacesShape ==
    [][\A pt \in MousePoints :
          (placing /\ mouse_released(pt[1], pt[2])) =>
              /\ dispatched' = <<"shape.place">>
              /\ get_current_layer \in DOMAIN heap
              /\ Len(heap'[get_current_layer].shapes)
                     = Len(heap[get_current_layer].shapes) + 1
              /\ Len(undo_stack') = Len(undo_stack) + 1]_vars


\* The keys of the dict each tool builds for a shape of the given type.
ShapeFields(type) ==
    CASE type \in {"rect", "ellipse"} -> {"type", "x", "y", "w", "h"}
      [] type = "line" -> {"type", "x1", "y1", "x2", "y2"}
      [] type = "triangle" -> {"type", "x1", "y1", "x2", "y2", "x3", "y3"}

\* v is a dict with a known type and exactly the keys of that type (py and oid
\* are the dict's Python type and identity, not keys).
IsShape(v) ==
    /\ v.py = "dict"
    /\ v.type \in {"rect", "ellipse", "line", "triangle"}
    /\ DOMAIN v \ {"py", "oid"} = ShapeFields(v.type)

\* C20: with any of the four tools active and no shape.place callback, every
\* element of every layer's shapes is a shape dict of a known type with
\* exactly that type's keys.
C20_LayersHoldOnlyShapes ==
    \A l \in DOMAIN heap :
        \A i \in DOMAIN heap[l].shapes : IsShape(heap[l].shapes[i])


\* C21: a finish_place call in Idle changes no layer and records no undo
\* entry, and after every finish_place call (shape appended, dropped on a
\* locked or absent layer, or called in Idle) placing is False and there is no
\* preview shape.
C21_FinishPlaceEndsIdle ==
    [][PFinishPlace =>
          /\ placing' = FALSE
          /\ preview_shape' = NoneV
          /\ ~placing => UNCHANGED <<layers, heap, current_layer_index, uvars>>]_vars

\* A placement was dropped on a locked layer that already holds a shape, and
\* the canvas is Idle again.
C21_Witness ==
    /\ lastOp = [op |-> "finish_place", a |-> 2, b |-> 0, c |-> 0]
    /\ \E l \in DOMAIN heap : heap[l].locked /\ heap[l].shapes # <<>>
    /\ ~placing


\* C22: update_preview changes nothing but preview_shape, and that only while
\* placing with a tool set: the layers, their shapes and flags, the current
\* index, placing, the drag origin and both stacks stay as they were, and a
\* call in Idle changes nothing.
C22_UpdatePreviewFrame ==
    [][PUpdatePreview =>
          /\ UNCHANGED <<hooks, layers, heap, current_layer_index, current_tool,
                         placing, start_x, start_y, uvars>>
          /\ ~(placing /\ current_tool # NoTool) => UNCHANGED preview_shape]_vars

\* update_preview stored a preview while placing, with a shape on the layer
\* and an entry on the undo stack.
C22_Witness ==
    /\ lastOp = [op |-> "update_preview", a |-> 1, b |-> 0, c |-> 0]
    /\ preview_shape # NoneV
    /\ undo_stack # <<>>
    /\ \E l \in DOMAIN heap : heap[l].shapes # <<>>


IsVisible(l) == heap[l].visible

RECURSIVE Flatten(_)
Flatten(seqs) == IF seqs = <<>> THEN <<>> ELSE Head(seqs) \o Flatten(Tail(seqs))

\* The shapes of the visible layers, layer after layer in store order.
ShapesOnShow ==
    LET shown == SelectSeq(layers, IsVisible)
    IN Flatten([i \in DOMAIN shown |-> heap[shown[i]].shapes])

\* C23: draw() renders the shapes of the visible layers, layer by layer in
\* store order and in each layer's insertion order, without the preview
\* treatment, then the preview shape, if there is one, once with the preview
\* treatment; shapes of invisible layers are not rendered, and draw() changes
\* no layer, stack or controller state.
C23_DrawOrder ==
    [][RDraw =>
          /\ rendered' =
                 [i \in DOMAIN ShapesOnShow |->
                     [call |-> ShapesOnShow[i].type, shape |-> ShapesOnShow[i],
                      preview |-> FALSE]]
                 \o (IF preview_shape # NoneV
                     THEN <<[call |-> preview_shape.type, shape |-> preview_shape,
                             preview |-> TRUE]>>
                     ELSE <<>>)
          /\ UNCHANGED <<hooks, cvars, uvars>>]_vars

\* draw() ran on a store reordered by move_layer, with a shape on an invisible
\* layer, and rendered one shape and then the preview.
C23_Witness ==
    /\ lastOp.op = "draw"
    /\ layers = <<2, 1>>
    /\ \E l \in DOMAIN heap : ~heap[l].visible /\ heap[l].shapes # <<>>
    /\ Len(rendered) = 2
    /\ ~rendered[1].preview
    /\ rendered[2].preview


\* The last call was op of the given tool; its drag went from lastOp.b to
\* lastOp.c.
Called(op, tool) == lastOp.op = op /\ lastOp.a = tool

\* Numbers are kept doubled (Dbl), so that the halves of x + w / 2 are
\* integers: a field holding 2 * v stands for the value v.

\* C24: EllipseTool.place on a drag (x1,y1) -> (x2,y2) returns an ellipse whose
\* x, y are the corner (min(x1,x2), min(y1,y2)) of the drag's bounding box and
\* whose w, h are |x2-x1|, |y2-y1|.
C24_EllipseAnchoredAtCorner ==
    Called("place", "Ellipse") =>
        LET x1 == lastOp.b[1]  y1 == lastOp.b[2]
            x2 == lastOp.c[1]  y2 == lastOp.c[2]
        IN /\ returned.type = "ellipse"
           /\ returned.x = 2 * (IF x1 <= x2 THEN x1 ELSE x2)
           /\ returned.y = 2 * (IF y1 <= y2 THEN y1 ELSE y2)
           /\ returned.w = 2 * (IF x1 <= x2 THEN x2 - x1 ELSE x1 - x2)
           /\ returned.h = 2 * (IF y1 <= y2 THEN y2 - y1 ELSE y1 - y2)

C26_AllToolsRegistered ==
    started =>
        \A tool \in Tools :
            /\ Cardinality({k \in DOMAIN tool_registry : tool_registry[k] = tool}) = 1
            /\ \E k \in DOMAIN tool_buttons : tool_buttons[k] = tool


\* The shapes captured by the undo-stack entries whose closures capture
\* layer l, oldest entry first.
RecordedOn(l) ==
    LET es == SelectSeq(undo_stack, LAMBDA e : e.layer = l)
    IN [i \in DOMAIN es |-> es[i].shape]

\* C27: for every layer ever created, in the store or deleted from it, the
\* layer's shapes are the shapes of the undo-stack entries that capture it, as
\* many and in the same order; so undo() never pops from an empty shape list.
C27_ShapesMatchUndoEntries ==
    /\ [](\A l \in DOMAIN heap : heap[l].shapes = RecordedOn(l))
    /\ [][Undo => err' # "IndexError"]_vars

\* A layer deleted from the store and a layer in the store each hold a shape,
\* with the two entries on the undo stack.
C27_Witness ==
    /\ \E l \in DOMAIN heap :
           /\ \A i \in DOMAIN layers : layers[i] # l
           /\ heap[l].shapes # <<>>
    /\ \E i \in DOMAIN layers : heap[layers[i]].shapes # <<>>
    /\ Len(undo_stack) = 2


\* The handler moved the top entry of stack from onto stack to, and of all
\* Layer objects changed only the one that entry captures.
MovedTop(from, to, fromAfter, toAfter) ==
    LET e == from[Len(from)]
    IN /\ fromAfter = SubSeq(from, 1, Len(from) - 1)
       /\ toAfter = Append(to, e)
       /\ \A l \in DOMAIN heap : l # e.layer => heap'[l] = heap[l]
       /\ heap'[e.layer].shapes # heap[e.layer].shapes
       /\ \A i \in DOMAIN layers : heap'[layers[i]].shapes = heap[layers[i]].shapes
       /\ UNCHANGED <<layers, current_layer_index>>

\* C28: delete_layer leaves both stacks as they were; an undo() or redo() whose
\* entry captures a layer that was deleted from the store still moves the
\* entry to the other stack, changes only that detached Layer object, and
\* leaves the shapes of every layer in the store unchanged.
C28_DetachedEntriesStillRun ==
    /\ [][XDeleteLayer => UNCHANGED uvars]_vars
    /\ [][(XUndo /\ TopDetached(undo_stack) = 1) =>
             MovedTop(undo_stack, redo_stack, undo_stack', redo_stack')]_vars
    /\ [][(XRedo /\ TopDetached(redo_stack) = 1) =>
             MovedTop(redo_stack, undo_stack, redo_stack', undo_stack')]_vars

\* undo() ran an entry whose layer had been deleted: the detached layer lost
\* its shape while a layer of the store still holds one.
C28_Witness ==
    /\ lastOp = [op |-> "undo", a |-> 1, b |-> 0, c |-> 0]
    /\ redo_stack # <<>>
    /\ ~InStore(redo_stack[Len(redo_stack)].layer)
    /\ heap[redo_stack[Len(redo_stack)].layer].shapes = <<>>
    /\ \E i \in DOMAIN layers : heap[layers[i]].shapes # <<>>


\* C29: a finish_place call while placing with a tool dispatches shape.place
\* once, also when the placement is then dropped; the shape it appends and
\* records is the value that dispatch returned, not the shape the tool built;
\* undo and redo dispatch nothing, undo hands the recorded entry to the redo
\* stack as it is, and redo appends the shape of that entry.
C29_PlacedShapeIsHookResult ==
    /\ [][(PFinishPlace /\ PlaceCase # 0) => dispatched' = <<"shape.place">>]_vars
    /\ [][(PFinishPlace /\ PlaceCase = 1) =>
             LET l == get_current_layer
                 final == Fold(hooks["shape.place"],
                               Place(current_tool, FreshOid, start_x, start_y, 0, 2))
             IN /\ heap'[l].shapes = Append(heap[l].shapes, final)
                /\ undo_stack' = Append(undo_stack, Entry(l, final, Len(heap'[l].shapes)))]_vars
    /\ [][(PUndo /\ undo_stack # <<>>) =>
             /\ dispatched' = <<>>
             /\ redo_stack' = Append(redo_stack, undo_stack[Len(undo_stack)])]_vars
    /\ [][(PRedo /\ redo_stack # <<>>) =>
             LET e == redo_stack[Len(redo_stack)]
             IN /\ dispatched' = <<>>
                /\ heap'[e.layer].shapes = Append(heap[e.layer].shapes, e.shape)]_vars

\* redo() appended again a value a shape.place callback had put in place of
\* the tool's dict.
C29_Witness ==
    /\ lastOp = [op |-> "redo", a |-> 1, b |-> 0, c |-> 0]
    /\ dispatched = <<>>
    /\ \E l \in DOMAIN heap :
           /\ heap[l].shapes # <<>>
           /\ heap[l].shapes[Len(heap[l].shapes)] = ListV(<<"tag1">>)

============================================================================
